---- MODULE Spec2Model ----
(***************************************************************************)
(* The save/economy core of auto-invaders: SaveManager (the in-memory     *)
(* save, its localStorage snapshot, export/import, offline progress),     *)
(* UpgradeManager (cost, availability, purchase) and the GameScene        *)
(* handlers that drive them.                                               *)
(*                                                                         *)
(* Modelling conventions                                                   *)
(*  - Numbers are integers; Date.now() is read in whole seconds.           *)
(*  - A JavaScript value that may be undefined, NaN or null (the fields of *)
(*    the stats record) is a record [k, n]; see Num, UNDEFINED, NAN, NULL. *)
(*  - The upgrades map is a total function with 0 for an absent key, as    *)
(*    getUpgradeLevel reads it (upgrades[id] || 0).                        *)
(*  - currentSave.upgrades and currentSave.stats are object references:    *)
(*    "shared" says the reference is to the object held by DEFAULT_SAVE    *)
(*    (the result of { ...DEFAULT_SAVE }), otherwise the save owns "obj".  *)
(*  - A JSON text is [kind, bad, has, val]: the keys it has, their values, *)
(*    and which of scrap/currentWave hold a non-number.                    *)
(***************************************************************************)
EXTENDS Integers, Sequences, FiniteSets, TLC

VARIABLES
    currentSave,    \* SaveManager.currentSave
    DEFAULT_SAVE,   \* the nested objects of DEFAULT_SAVE: [upgrades, stats]
    storage,        \* localStorage item SAVE_KEY
    exported,       \* the last text returned by exportSave and the save it was taken from
    now,            \* Date.now(), seconds
    calls,          \* number of API calls made so far (bounds the exploration)
    last,           \* the last call: [op, id, amount, ret, io, text]
    bought,         \* history of Spec: the ids whose purchase has succeeded so far
    game            \* the running scene and its WaveManager:
                    \* [scene, hasSave, waveInProgress, isBossWave, timers,
                    \*  spawnedCount, totalToSpawn, spawningComplete,
                    \*  active, bosses, paused], and the history
                    \*  spawnedBefore: the enemies of the wave in progress
                    \*  that spawnedCount no longer counts (counted up to
                    \*  MaxCarried); the player and the drones of the
                    \*  scene: autopilotEnabled, maxHP, drones; the
                    \*  offlineScrap handed to the scene, and the history
                    \*  credit: the time of the last offline credit that
                    \*  was persisted

vars == <<currentSave, DEFAULT_SAVE, storage, exported, now, calls, last, bought, game>>

----
\* Bounds of the exploration
MaxCalls == 4

----
\* GameConfig.ts
WAVES_PER_SECTOR == 12
SECTOR_COUNT == 6
MAX_OFFLINE_HOURS == 8

NoSector == -1

UpgradeDef(baseCost, maxLevel, isUnlock, coresCost, sectorRequired, prerequisite) ==
    [baseCost |-> baseCost, maxLevel |-> maxLevel, isUnlock |-> isUnlock,
     coresCost |-> coresCost, sectorRequired |-> sectorRequired,
     prerequisite |-> prerequisite]

PLAYER_BASE_HP == 100

UPGRADES ==
    "autoFire"             :> UpgradeDef(120, 1, TRUE, 0, NoSector, "") @@
    "autopilot"            :> UpgradeDef(250, 1, TRUE, 0, NoSector, "autoFire") @@
    "targetingFirmware"    :> UpgradeDef(180, 1, TRUE, 0, NoSector, "autoFire") @@
    "damage"               :> UpgradeDef(25, 20, FALSE, 0, NoSector, "") @@
    "fireRate"             :> UpgradeDef(30, 20, FALSE, 0, NoSector, "") @@
    "projectileSpeed"      :> UpgradeDef(20, 20, FALSE, 0, NoSector, "") @@
    "critChance"           :> UpgradeDef(40, 15, FALSE, 0, NoSector, "") @@
    "critMultiplier"       :> UpgradeDef(50, 10, FALSE, 0, NoSector, "") @@
    "thrusterSpeed"        :> UpgradeDef(25, 20, FALSE, 0, NoSector, "autopilot") @@
    "autopilotV2"          :> UpgradeDef(500, 1, TRUE, 0, 3, "autopilot") @@
    "autopilotV3"          :> UpgradeDef(0, 1, TRUE, 2, 5, "autopilotV2") @@
    "tracking"             :> UpgradeDef(25, 20, FALSE, 0, NoSector, "targetingFirmware") @@
    "focus"                :> UpgradeDef(30, 15, FALSE, 0, NoSector, "targetingFirmware") @@
    "lockOn"               :> UpgradeDef(0, 1, TRUE, 1, 2, "targetingFirmware") @@
    "lockOnSpeed"          :> UpgradeDef(35, 10, FALSE, 0, NoSector, "lockOn") @@
    "droneSlot1"           :> UpgradeDef(400, 1, TRUE, 0, 1, "") @@
    "droneSlot2"           :> UpgradeDef(0, 1, TRUE, 2, 4, "droneSlot1") @@
    "droneDamage"          :> UpgradeDef(35, 15, FALSE, 0, NoSector, "droneSlot1") @@
    "droneFireRate"        :> UpgradeDef(40, 15, FALSE, 0, NoSector, "droneSlot1") @@
    "salvageYield"         :> UpgradeDef(35, 20, FALSE, 0, NoSector, "") @@
    "scrapMagnet"          :> UpgradeDef(150, 1, TRUE, 0, NoSector, "") @@
    "hull"                 :> UpgradeDef(30, 20, FALSE, 0, NoSector, "") @@
    "stability"            :> UpgradeDef(22, 15, FALSE, 0, 2, "") @@
    "heatCapacity"         :> UpgradeDef(60, 10, FALSE, 0, 5, "") @@
    "coolingRate"          :> UpgradeDef(60, 10, FALSE, 0, 5, "") @@
    "weaponModSlot"        :> UpgradeDef(0, 1, TRUE, 1, 3, "") @@
    "behaviorScripts"      :> UpgradeDef(0, 1, TRUE, 1, 4, "")

UpgradeIds == DOMAIN UPGRADES

\* ids the game asks the level of without a catalog entry (GameScene.ts:650)
UnknownIds == {"repairNanites"}

UpgradeKeys == UpgradeIds \cup UnknownIds

\* tier jumps that are all 1.0
getTierJump10_flat(level) == 10

\* getTierJump, in tenths
getTierJump10(level) ==
    IF level <= 5 THEN 10
    ELSE IF level <= 10 THEN 16
    ELSE IF level <= 15 THEN 27
    ELSE IF level <= 20 THEN 43
    ELSE 60

\* Decimal digits, least significant first, of digits * m + carry
RECURSIVE MulDigits(_, _, _)
MulDigits(digits, m, carry) ==
    IF digits = << >>
    THEN IF carry = 0 THEN << >>
         ELSE <<carry % 10>> \o MulDigits(<< >>, m, carry \div 10)
    ELSE LET v == Head(digits) * m + carry
         IN  <<v % 10>> \o MulDigits(Tail(digits), m, v \div 10)

\* digits of 118^k: Math.pow(1.18, k) is 118^k / 100^k
RECURSIVE Pow118(_)
Pow118(k) == IF k = 0 THEN <<1>> ELSE MulDigits(Pow118(k - 1), 118, 0)

RECURSIVE DigitsValue(_)
DigitsValue(digits) ==
    IF digits = << >> THEN 0 ELSE Head(digits) + 10 * DigitsValue(Tail(digits))

\* Math.round(baseCost * Math.pow(1.18, level - 1) * getTierJump(level)):
\* the product is N / 10^(2(level-1)+1) with N = baseCost * tier10 * 118^(level-1);
\* Math.round rounds half up.
getUpgradeCost(baseCost, level) ==
    LET n     == MulDigits(Pow118(level - 1), baseCost * getTierJump10(level), 0)
        frac  == 2 * (level - 1) + 1
        whole == IF Len(n) > frac THEN DigitsValue(SubSeq(n, frac + 1, Len(n))) ELSE 0
        half  == IF Len(n) >= frac THEN n[frac] ELSE 0
    IN  IF half >= 5 THEN whole + 1 ELSE whole

----
\* JavaScript values
Num(n) == [k |-> "number", n |-> n]
UNDEFINED == [k |-> "undefined", n |-> 0]
NAN == [k |-> "NaN", n |-> 0]
NULL == [k |-> "null", n |-> 0]

\* x + d for a number d: undefined + d and NaN + d are NaN, null + d is d
JsAdd(x, d) ==
    IF x.k = "number" THEN Num(x.n + d)
    ELSE IF x.k = "null" THEN Num(d)
    ELSE NAN

\* JSON.stringify of a property value: NaN is written as null; an undefined
\* property is omitted, and reads back as undefined
JsonValue(x) == IF x.k = "NaN" THEN NULL ELSE x

StatFields == {"totalKills", "totalScrapEarned", "totalDamageDealt", "playTime", "bossesDefeated"}

EmptyUpgrades == [id \in UpgradeKeys |-> 0]

DefaultStats == [f \in StatFields |-> Num(0)]

\* the flat fields of DEFAULT_SAVE (SaveManager.ts:55-77); lastSaveTime is
\* Date.now() at module load, which is time 0
DefaultFlat ==
    [scrap |-> 0, cores |-> 0, currentSector |-> 0, currentWave |-> 1,
     highestSector |-> 0, activeWeaponMod |-> "standard",
     lastSaveTime |-> 0, scrapPerSecond |-> 0]

FlatFields == DOMAIN DefaultFlat

SaveFields == FlatFields \cup {"upgrades", "stats"}

SharedRef == [shared |-> TRUE]

OwnRef(obj) == [shared |-> FALSE, obj |-> obj]

\* { ...DEFAULT_SAVE }
SpreadDefault ==
    [scrap |-> DefaultFlat.scrap, cores |-> DefaultFlat.cores,
     currentSector |-> DefaultFlat.currentSector,
     currentWave |-> DefaultFlat.currentWave,
     highestSector |-> DefaultFlat.highestSector,
     activeWeaponMod |-> DefaultFlat.activeWeaponMod,
     lastSaveTime |-> DefaultFlat.lastSaveTime,
     scrapPerSecond |-> DefaultFlat.scrapPerSecond,
     upgrades |-> SharedRef, stats |-> SharedRef]

\* the objects save.upgrades and save.stats refer to
UpgradesOf(save, def) == IF save.upgrades.shared THEN def.upgrades ELSE save.upgrades.obj
StatsOf(save, def) == IF save.stats.shared THEN def.stats ELSE save.stats.obj

\* the save as a caller of getCurrent() reads it
Value(save, def) ==
    [f \in SaveFields |->
        IF f = "upgrades" THEN UpgradesOf(save, def)
        ELSE IF f = "stats" THEN StatsOf(save, def)
        ELSE save[f]]

NoItem == [kind |-> "none"]

\* JSON.stringify(save)
Stringify(save, def) ==
    [kind |-> "json", bad |-> {}, has |-> SaveFields,
     val |-> [f \in SaveFields |->
                IF f = "upgrades" THEN UpgradesOf(save, def)
                ELSE IF f = "stats"
                     THEN [s \in StatFields |-> JsonValue(StatsOf(save, def)[s])]
                ELSE save[f]]]

\* { ...DEFAULT_SAVE, ...parsed } for parsed = JSON.parse(text)
SpreadOverDefault(text) ==
    [f \in SaveFields |->
        IF f \in text.has
        THEN IF f \in {"upgrades", "stats"} THEN OwnRef(text.val[f]) ELSE text.val[f]
        ELSE SpreadDefault[f]]

\* { ...save, ...data } for a partial of flat fields [has, val]
SpreadFlat(save, data) ==
    [f \in SaveFields |-> IF f \in data.has THEN data.val[f] ELSE save[f]]

\* save.upgrades[id] = level
SetLevel(save, def, id, level) ==
    IF save.upgrades.shared
    THEN <<save, [def EXCEPT !.upgrades[id] = level]>>
    ELSE <<[save EXCEPT !.upgrades.obj[id] = level], def>>

\* save.stats[field] = value
SetStat(save, def, field, value) ==
    IF save.stats.shared
    THEN <<save, [def EXCEPT !.stats[field] = value]>>
    ELSE <<[save EXCEPT !.stats.obj[field] = value], def>>

----
\* UpgradeManager.ts

getUpgrade(id) == IF id \in UpgradeIds THEN UPGRADES[id] ELSE UNDEFINED

\* SaveManager.getUpgradeLevel: upgrades[id] || 0
getUpgradeLevel(save, def, id) == UpgradesOf(save, def)[id]

hasUpgrade(save, def, id) == getUpgradeLevel(save, def, id) > 0

getLevel(save, def, id) == getUpgradeLevel(save, def, id)

\* getUpgradeCost(upgrade.baseCost, level) for the levels an upgrade can be
\* bought at, computed once
UpgradeCosts ==
    [id \in UpgradeIds |->
        [level \in 1..UPGRADES[id].maxLevel |->
            getUpgradeCost(UPGRADES[id].baseCost, level)]]

getCost(save, def, id) ==
    IF id \notin UpgradeIds THEN [scrap |-> 0, cores |-> 0]
    ELSE LET upgrade == UPGRADES[id]
             level   == getLevel(save, def, id)
         IN  IF level >= upgrade.maxLevel THEN [scrap |-> 0, cores |-> 0]
             ELSE [scrap |-> IF upgrade.baseCost > 0
                             THEN IF upgrade.isUnlock THEN upgrade.baseCost
                                  ELSE UpgradeCosts[id][level + 1]
                             ELSE 0,
                   cores |-> upgrade.coresCost]

\* canAfford without the scrap comparison
canAfford_coresOnly(save, def, id) ==
    LET cost == getCost(save, def, id)
    IN  ~(cost.cores > 0 /\ save.cores < cost.cores)

canAfford(save, def, id) ==
    LET cost == getCost(save, def, id)
    IN  /\ ~(cost.scrap > 0 /\ save.scrap < cost.scrap)
        /\ ~(cost.cores > 0 /\ save.cores < cost.cores)

\* isAvailable without the sector and prerequisite gates
isAvailable_ungated(save, def, id) ==
    IF id \notin UpgradeIds THEN [available |-> FALSE, reason |-> "Unknown upgrade"]
    ELSE IF getLevel(save, def, id) >= UPGRADES[id].maxLevel
    THEN [available |-> FALSE, reason |-> "Max level reached"]
    ELSE [available |-> TRUE, reason |-> ""]

\* isAvailable with the ceiling tested as level > maxLevel
isAvailable_pastCeiling(save, def, id) ==
    IF id \notin UpgradeIds THEN [available |-> FALSE, reason |-> "Unknown upgrade"]
    ELSE LET upgrade == UPGRADES[id]
         IN  IF getLevel(save, def, id) > upgrade.maxLevel
             THEN [available |-> FALSE, reason |-> "Max level reached"]
             ELSE IF upgrade.sectorRequired # NoSector
                     /\ save.highestSector < upgrade.sectorRequired
             THEN [available |-> FALSE, reason |-> "Requires Sector"]
             ELSE IF upgrade.prerequisite # ""
                     /\ ~hasUpgrade(save, def, upgrade.prerequisite)
             THEN [available |-> FALSE, reason |-> "Requires prerequisite"]
             ELSE [available |-> TRUE, reason |-> ""]

\* isAvailable with the sector gate tested against currentSector
isAvailable_currentSector(save, def, id) ==
    IF id \notin UpgradeIds THEN [available |-> FALSE, reason |-> "Unknown upgrade"]
    ELSE LET upgrade == UPGRADES[id]
         IN  IF getLevel(save, def, id) >= upgrade.maxLevel
             THEN [available |-> FALSE, reason |-> "Max level reached"]
             ELSE IF upgrade.sectorRequired # NoSector
                     /\ save.currentSector < upgrade.sectorRequired
             THEN [available |-> FALSE, reason |-> "Requires Sector"]
             ELSE IF upgrade.prerequisite # ""
                     /\ ~hasUpgrade(save, def, upgrade.prerequisite)
             THEN [available |-> FALSE, reason |-> "Requires prerequisite"]
             ELSE [available |-> TRUE, reason |-> ""]

isAvailable(save, def, id) ==
    IF id \notin UpgradeIds THEN [available |-> FALSE, reason |-> "Unknown upgrade"]
    ELSE LET upgrade == UPGRADES[id]
         IN  IF getLevel(save, def, id) >= upgrade.maxLevel
             THEN [available |-> FALSE, reason |-> "Max level reached"]
             ELSE IF upgrade.sectorRequired # NoSector
                     /\ save.highestSector < upgrade.sectorRequired
             THEN [available |-> FALSE, reason |-> "Requires Sector"]
             ELSE IF upgrade.prerequisite # ""
                     /\ ~hasUpgrade(save, def, upgrade.prerequisite)
             THEN [available |-> FALSE, reason |-> "Requires prerequisite"]
             ELSE [available |-> TRUE, reason |-> ""]

\* SaveManager.spendScrap / spendCores / addUpgradeLevel on a save
\* spendScrap refusing to spend the whole balance
spendScrap_strict(save, amount) ==
    IF save.scrap > amount
    THEN [save |-> [save EXCEPT !.scrap = @ - amount], ret |-> TRUE]
    ELSE [save |-> save, ret |-> FALSE]

spendScrap(save, amount) ==
    IF save.scrap >= amount
    THEN [save |-> [save EXCEPT !.scrap = @ - amount], ret |-> TRUE]
    ELSE [save |-> save, ret |-> FALSE]

spendCores(save, amount) ==
    IF save.cores >= amount
    THEN [save |-> [save EXCEPT !.cores = @ - amount], ret |-> TRUE]
    ELSE [save |-> save, ret |-> FALSE]

addUpgradeLevel(save, def, id) ==
    SetLevel(save, def, id, getUpgradeLevel(save, def, id) + 1)

\* purchase without the availability check
purchase_unchecked(save, def, id) ==
    IF id \notin UpgradeIds THEN [save |-> save, def |-> def, ret |-> FALSE]
    ELSE IF ~canAfford(save, def, id)
    THEN [save |-> save, def |-> def, ret |-> FALSE]
    ELSE LET cost == getCost(save, def, id)
             s1   == IF cost.scrap > 0 THEN spendScrap(save, cost.scrap).save ELSE save
             s2   == IF cost.cores > 0 THEN spendCores(s1, cost.cores).save ELSE s1
             r    == addUpgradeLevel(s2, def, id)
         IN  [save |-> r[1], def |-> r[2], ret |-> TRUE]

\* UpgradeManager.purchase: the save and DEFAULT_SAVE after the call, and
\* the value returned
purchase(save, def, id) ==
    IF id \notin UpgradeIds THEN [save |-> save, def |-> def, ret |-> FALSE]
    ELSE IF ~isAvailable(save, def, id).available
    THEN [save |-> save, def |-> def, ret |-> FALSE]
    ELSE IF ~canAfford(save, def, id)
    THEN [save |-> save, def |-> def, ret |-> FALSE]
    ELSE LET cost == getCost(save, def, id)
             s1   == IF cost.scrap > 0 THEN spendScrap(save, cost.scrap).save ELSE save
             s2   == IF cost.cores > 0 THEN spendCores(s1, cost.cores).save ELSE s1
             r    == addUpgradeLevel(s2, def, id)
         IN  [save |-> r[1], def |-> r[2], ret |-> TRUE]

----
\* Inputs of the calls

ScrapAmounts == {200}
SpendAmounts == {120, 200}
CoresAmounts == {1}
ClockSteps == {60}

\* ids passed to purchase and addUpgradeLevel
ShopIds == {"autoFire", "autopilot", "damage", "weaponModSlot", "repairNanites"}

Partial(has, val) == [has |-> has, val |-> val]

\* the partials the callers pass to update (GameScene.ts:828, ShopUI.ts:174,
\* browser-tests Test 6, GameScene.ts:903)
UpdatePartials ==
    { Partial({"scrapPerSecond"}, [DefaultFlat EXCEPT !.scrapPerSecond = 1]),
      Partial({"activeWeaponMod"}, [DefaultFlat EXCEPT !.activeWeaponMod = "pierce"]),
      Partial({"currentWave", "currentSector"},
              [DefaultFlat EXCEPT !.currentWave = 5, !.currentSector = 2]),
      Partial({}, DefaultFlat) }

JsonText(has, bad, val) == [kind |-> "json", bad |-> bad, has |-> has, val |-> val]

DefaultVal ==
    [f \in SaveFields |->
        IF f = "upgrades" THEN EmptyUpgrades
        ELSE IF f = "stats" THEN DefaultStats
        ELSE DefaultFlat[f]]

\* a save written before bossesDefeated existed, far into the campaign
OldSaveVal ==
    [DefaultVal EXCEPT
        !.scrap = 1000, !.cores = 2, !.currentSector = 1, !.highestSector = 3,
        !.scrapPerSecond = 2,
        !.upgrades = [EmptyUpgrades EXCEPT !["autoFire"] = 1],
        !.stats = [DefaultStats EXCEPT !.totalKills = Num(7),
                                       !.bossesDefeated = UNDEFINED]]

\* texts a user can paste into the import prompt
HandWrittenTexts ==
    { [kind |-> "badBase64"],
      [kind |-> "badJSON"],
      JsonText({"currentWave"}, {}, DefaultVal),
      JsonText({"scrap", "currentWave"}, {"scrap"}, DefaultVal),
      JsonText({"scrap", "currentWave"}, {"currentWave"}, DefaultVal),
      JsonText({"scrap", "currentWave"}, {}, [DefaultVal EXCEPT !.scrap = -5]),
      JsonText(SaveFields, {}, OldSaveVal) }

Bool(b) == IF b THEN "true" ELSE "false"

\* io: what became of the call's localStorage.setItem ("none": it made none)
Call(op, id, amount, ret) ==
    [op |-> op, id |-> id, amount |-> amount, ret |-> ret, io |-> "none", text |-> NoItem]

Write(ok) == IF ok THEN "ok" ELSE "failed"

----
Init ==
    /\ currentSave = SpreadDefault
    /\ DEFAULT_SAVE = [upgrades |-> EmptyUpgrades, stats |-> DefaultStats]
    /\ storage = NoItem
    /\ exported = [text |-> NoItem]
    /\ now = 0
    /\ calls = 0
    /\ last = Call("init", "", 0, "void")
    /\ bought = {}
    /\ game = [scene |-> "menu", hasSave |-> FALSE, waveInProgress |-> FALSE,
               isBossWave |-> FALSE, timers |-> 0,
               spawnedCount |-> 0, totalToSpawn |-> 0, spawningComplete |-> FALSE,
               active |-> 0, bosses |-> 0, paused |-> FALSE, spawnedBefore |-> 0,
               autopilotEnabled |-> FALSE, maxHP |-> PLAYER_BASE_HP, drones |-> 0,
               offlineScrap |-> 0, credit |-> [has |-> FALSE, at |-> 0]]

Step == calls < MaxCalls /\ calls' = calls + 1

Called == calls' = calls + 1

\* SaveManager.load: the save it leaves in memory
SaveManager_load(item) ==
    IF item.kind = "json" THEN SpreadOverDefault(item) ELSE SpreadDefault

Load ==
    /\ Step
    /\ currentSave' = SaveManager_load(storage)
    /\ last' = Call("load", "", 0, "void")
    /\ UNCHANGED <<DEFAULT_SAVE, storage, exported, now, bought, game>>

\* a save that leaves memory alone when the write fails
SaveManager_save_atomic(cur, def, data, ok, item, t) ==
    LET merged == [SpreadFlat(cur, data) EXCEPT !.lastSaveTime = t]
    IN  [save |-> IF ok THEN merged ELSE cur,
         item |-> IF ok THEN Stringify(merged, def) ELSE item]

\* SaveManager.save(data); ok: localStorage.setItem does not throw
\* a save that keeps the lastSaveTime it finds
SaveManager_save_unstamped(cur, def, data, ok, item, t) ==
    LET merged == SpreadFlat(cur, data)
    IN  [save |-> merged, item |-> IF ok THEN Stringify(merged, def) ELSE item]

SaveManager_save(cur, def, data, ok, item, t) ==
    LET merged == [SpreadFlat(cur, data) EXCEPT !.lastSaveTime = t]
    IN  [save |-> merged, item |-> IF ok THEN Stringify(merged, def) ELSE item]

Save(data, ok) ==
    /\ Step
    /\ LET r == SaveManager_save(currentSave, DEFAULT_SAVE, data, ok, storage, now)
       IN  /\ currentSave' = r.save
           /\ storage' = r.item
    /\ last' = [Call("save", "", 0, "void") EXCEPT !.io = Write(ok), !.text = data]
    /\ UNCHANGED <<DEFAULT_SAVE, exported, now, bought, game>>

\* an update that also writes the save to storage
SaveManager_update_saving(cur, def, data, item) ==
    [save |-> SpreadFlat(cur, data), item |-> Stringify(SpreadFlat(cur, data), def)]

\* SaveManager.update(data)
SaveManager_update(cur, def, data, item) ==
    [save |-> SpreadFlat(cur, data), item |-> item]

Update(data) ==
    /\ Step
    /\ LET r == SaveManager_update(currentSave, DEFAULT_SAVE, data, storage)
       IN  /\ currentSave' = r.save
           /\ storage' = r.item
    /\ last' = [Call("update", "", 0, "void") EXCEPT !.text = data]
    /\ UNCHANGED <<DEFAULT_SAVE, exported, now, bought, game>>

\* SaveManager.reset; the setItem is outside any try: a failed write throws
Reset(ok) ==
    /\ Step
    /\ currentSave' = [SpreadDefault EXCEPT !.lastSaveTime = now]
    /\ storage' = IF ok THEN Stringify(currentSave', DEFAULT_SAVE) ELSE storage
    /\ last' = [Call("reset", "", 0, IF ok THEN "void" ELSE "threw") EXCEPT !.io = Write(ok)]
    /\ UNCHANGED <<DEFAULT_SAVE, exported, now, bought, game>>

ExportSave ==
    /\ Step
    /\ exported' = [text |-> Stringify(currentSave, DEFAULT_SAVE),
                    from |-> Value(currentSave, DEFAULT_SAVE)]
    /\ last' = Call("exportSave", "", 0, "text")
    /\ UNCHANGED <<currentSave, DEFAULT_SAVE, storage, now, bought, game>>

\* typeof parsed.scrap === 'number' && typeof parsed.currentWave === 'number'
validImport(text) ==
    /\ text.kind = "json"
    /\ \A f \in {"scrap", "currentWave"} : f \in text.has /\ f \notin text.bad

ImportSave(text, ok) ==
    /\ Step
    /\ IF ~validImport(text)
       THEN /\ UNCHANGED <<currentSave, storage>>
            /\ last' = [Call("importSave", "", 0, "false") EXCEPT !.text = text]
       ELSE /\ currentSave' = SpreadOverDefault(text)
            /\ storage' = IF ok THEN Stringify(currentSave', DEFAULT_SAVE) ELSE storage
            /\ last' = [Call("importSave", "", 0, Bool(ok)) EXCEPT !.io = Write(ok), !.text = text]
    /\ UNCHANGED <<DEFAULT_SAVE, exported, now, bought, game>>

Min(a, b) == IF a <= b THEN a ELSE b
Max(a, b) == IF a >= b THEN a ELSE b

\* calculateOfflineProgress without the 8-hour cap
calculateOfflineProgress_uncapped(item, def, ok, t) ==
    LET loaded  == SaveManager_load(item)
        elapsed == t - loaded.lastSaveTime
    IN  IF elapsed < 60 \/ loaded.scrapPerSecond <= 0
        THEN [save |-> loaded, item |-> item, scrap |-> 0, io |-> "none"]
        ELSE LET offlineScrap  == loaded.scrapPerSecond * elapsed
                 r == SaveManager_save(loaded, def,
                          Partial({"scrap"}, [DefaultFlat EXCEPT !.scrap = loaded.scrap + offlineScrap]),
                          ok, item, t)
             IN  [save |-> r.save, item |-> r.item, scrap |-> offlineScrap, io |-> Write(ok)]

\* calculateOfflineProgress without the one-minute threshold
calculateOfflineProgress_noThreshold(item, def, ok, t) ==
    LET loaded  == SaveManager_load(item)
        elapsed == t - loaded.lastSaveTime
    IN  IF loaded.scrapPerSecond <= 0
        THEN [save |-> loaded, item |-> item, scrap |-> 0, io |-> "none"]
        ELSE LET cappedSeconds == Min(elapsed, MAX_OFFLINE_HOURS * 3600)
                 offlineScrap  == loaded.scrapPerSecond * cappedSeconds
                 r == SaveManager_save(loaded, def,
                          Partial({"scrap"}, [DefaultFlat EXCEPT !.scrap = loaded.scrap + offlineScrap]),
                          ok, item, t)
             IN  [save |-> r.save, item |-> r.item, scrap |-> offlineScrap, io |-> Write(ok)]

\* SaveManager.calculateOfflineProgress: the save and the item it leaves,
\* the scrap it returns and what became of its write
calculateOfflineProgress(item, def, ok, t) ==
    LET loaded  == SaveManager_load(item)
        elapsed == t - loaded.lastSaveTime
    IN  IF elapsed < 60 \/ loaded.scrapPerSecond <= 0
        THEN [save |-> loaded, item |-> item, scrap |-> 0, io |-> "none"]
        ELSE LET cappedSeconds == Min(elapsed, MAX_OFFLINE_HOURS * 3600)
                 offlineScrap  == loaded.scrapPerSecond * cappedSeconds
                 r == SaveManager_save(loaded, def,
                          Partial({"scrap"}, [DefaultFlat EXCEPT !.scrap = loaded.scrap + offlineScrap]),
                          ok, item, t)
             IN  [save |-> r.save, item |-> r.item, scrap |-> offlineScrap, io |-> Write(ok)]

CalculateOfflineProgress(ok) ==
    /\ Step
    /\ LET r == calculateOfflineProgress(storage, DEFAULT_SAVE, ok, now)
       IN  /\ currentSave' = r.save
           /\ storage' = r.item
           /\ last' = [Call("calculateOfflineProgress", "", r.scrap, "number")
                          EXCEPT !.io = r.io]
    /\ UNCHANGED <<DEFAULT_SAVE, exported, now, bought, game>>

AddUpgradeLevel(id) ==
    /\ Step
    /\ LET r == addUpgradeLevel(currentSave, DEFAULT_SAVE, id)
       IN  /\ currentSave' = r[1]
           /\ DEFAULT_SAVE' = r[2]
    /\ last' = Call("addUpgradeLevel", id, 0, "void")
    /\ UNCHANGED <<storage, exported, now, bought, game>>

\* stats[field] += d
BumpStat(save, def, field, d) ==
    SetStat(save, def, field, JsAdd(StatsOf(save, def)[field], d))

AddScrap(amount) ==
    /\ Step
    /\ LET r == BumpStat([currentSave EXCEPT !.scrap = @ + amount], DEFAULT_SAVE,
                         "totalScrapEarned", amount)
       IN  /\ currentSave' = r[1]
           /\ DEFAULT_SAVE' = r[2]
    /\ last' = Call("addScrap", "", amount, "void")
    /\ UNCHANGED <<storage, exported, now, bought, game>>

SpendScrap(amount) ==
    /\ Step
    /\ LET r == spendScrap(currentSave, amount)
       IN  /\ currentSave' = r.save
           /\ last' = Call("spendScrap", "", amount, Bool(r.ret))
    /\ UNCHANGED <<DEFAULT_SAVE, storage, exported, now, bought, game>>

AddCores(amount) ==
    /\ Step
    /\ currentSave' = [currentSave EXCEPT !.cores = @ + amount]
    /\ last' = Call("addCores", "", amount, "void")
    /\ UNCHANGED <<DEFAULT_SAVE, storage, exported, now, bought, game>>

SpendCores(amount) ==
    /\ Step
    /\ LET r == spendCores(currentSave, amount)
       IN  /\ currentSave' = r.save
           /\ last' = Call("spendCores", "", amount, Bool(r.ret))
    /\ UNCHANGED <<DEFAULT_SAVE, storage, exported, now, bought, game>>

RecordStat(op, field, d) ==
    /\ Step
    /\ LET r == BumpStat(currentSave, DEFAULT_SAVE, field, d)
       IN  /\ currentSave' = r[1]
           /\ DEFAULT_SAVE' = r[2]
    /\ last' = Call(op, "", d, "void")
    /\ UNCHANGED <<storage, exported, now, bought, game>>

RecordKill == RecordStat("recordKill", "totalKills", 1)

RecordBossDefeat == RecordStat("recordBossDefeat", "bossesDefeated", 1)

AddPlayTime == RecordStat("addPlayTime", "playTime", 1)

PurchaseCall(id) ==
    /\ LET r == purchase(currentSave, DEFAULT_SAVE, id)
       IN  /\ currentSave' = r.save
           /\ DEFAULT_SAVE' = r.def
           /\ last' = Call("purchase", id, 0, Bool(r.ret))
    /\ UNCHANGED <<storage, exported, now, game>>

Purchase(id) ==
    /\ Step
    /\ PurchaseCall(id)
    /\ bought' = IF last'.ret = "true" THEN bought \cup {id} ELSE bought

\* a collector leaves the screen (Enemy.ts:216-219, GameScene.ts:586-590):
\* update({ scrap: Math.max(0, scrap - scrapValue * 2) })
CollectorTheft(scrapValue) ==
    /\ Step
    /\ currentSave' = [currentSave EXCEPT !.scrap = Max(0, @ - scrapValue * 2)]
    /\ last' = Call("collectorTheft", "", scrapValue, "void")
    /\ UNCHANGED <<DEFAULT_SAVE, storage, exported, now, bought, game>>

\* time passes
Tick(d) ==
    /\ Step
    /\ now' = now + d
    /\ last' = Call("tick", "", d, "void")
    /\ UNCHANGED <<currentSave, DEFAULT_SAVE, storage, exported, bought, game>>

ImportTexts == HandWrittenTexts \cup (IF exported.text.kind = "json" THEN {exported.text} ELSE {})

Next ==
    \/ Load
    \/ \E ok \in BOOLEAN : Save(Partial({}, DefaultFlat), ok)
    \/ \E data \in UpdatePartials : Update(data)
    \/ \E ok \in BOOLEAN : Reset(ok)
    \/ ExportSave
    \/ \E text \in ImportTexts, ok \in BOOLEAN : ImportSave(text, ok)
    \/ \E ok \in BOOLEAN : CalculateOfflineProgress(ok)
    \/ \E id \in ShopIds : AddUpgradeLevel(id)
    \/ \E amount \in ScrapAmounts : AddScrap(amount)
    \/ \E amount \in SpendAmounts : SpendScrap(amount)
    \/ \E amount \in CoresAmounts : AddCores(amount)
    \/ \E amount \in CoresAmounts : SpendCores(amount)
    \/ RecordKill
    \/ RecordBossDefeat
    \/ AddPlayTime
    \/ \E id \in ShopIds : Purchase(id)
    \/ \E v \in {30} : CollectorTheft(v)
    \/ \E d \in ClockSteps : Tick(d)

Spec == Init /\ [][Next]_vars

----
\* Sessions: the save is written, the player is away (or the system clock
\* is set back), and calculateOfflineProgress runs at the next start.

\* a minute, more than the eight-hour cap, and a clock set back two minutes
OfflineClockSteps == {60, 30000, -120}

OfflineNext ==
    \/ \E ok \in BOOLEAN : Save(Partial({}, DefaultFlat), ok)
    \/ \E data \in UpdatePartials : Update(data)
    \/ \E amount \in ScrapAmounts : AddScrap(amount)
    \/ \E ok \in BOOLEAN : Reset(ok)
    \/ \E text \in HandWrittenTexts, ok \in BOOLEAN : ImportSave(text, ok)
    \/ \E ok \in BOOLEAN : CalculateOfflineProgress(ok)
    \/ \E d \in OfflineClockSteps : Tick(d)

OfflineSpec == Init /\ [][OfflineNext]_vars

\* The store on its own: save and update with the partials their callers
\* pass, load, currency and upgrade changes in between, the clock.

\* save(getCurrent()) (GameScene.autoSave), save({scrap}) of
\* calculateOfflineProgress, and a partial of two fields
SavePartials ==
    { Partial({}, DefaultFlat),
      Partial({"scrap"}, [DefaultFlat EXCEPT !.scrap = 500]),
      Partial({"currentWave", "currentSector"},
              [DefaultFlat EXCEPT !.currentWave = 5, !.currentSector = 2]) }

\* the stored item is damaged outside the program: its text no longer
\* parses (SaveManager.load, the catch after JSON.parse)
Corrupt ==
    /\ Step
    /\ storage.kind = "json"
    /\ storage' = [kind |-> "badJSON"]
    /\ last' = Call("corrupt", "", 0, "void")
    /\ UNCHANGED <<currentSave, DEFAULT_SAVE, exported, now, bought, game>>

StoreNext ==
    \/ Load
    \/ \E data \in SavePartials, ok \in BOOLEAN : Save(data, ok)
    \/ \E data \in UpdatePartials : Update(data)
    \/ \E id \in {"autoFire"} : AddUpgradeLevel(id)
    \/ Corrupt
    \/ \E amount \in ScrapAmounts : AddScrap(amount)
    \/ \E d \in ClockSteps : Tick(d)

StoreSpec == Init /\ [][StoreNext]_vars

----
\* The scenes that drive the save: MenuScene, GameScene with its
\* WaveManager, VictoryScene. The enemies on screen are the environment: a
\* kill, the last enemy of a wave leaving and the boss dying are its moves.
\* The clock is held still here (offline time is exercised in Spec).

\* Bounds of the exploration
MaxKills == 1
MaxSector == 6

\* scrap credited for a regular kill and for a boss (scrapValue with its
\* multipliers, GameScene.ts:635-647)
KillScraps == {2000}
BossScraps == {100}

\* the shop entries clicked (ShopUI.ts:269)
GameShopIds == {"autoFire", "critMultiplier", "weaponModSlot"}

addScrap(save, def, amount) ==
    BumpStat([save EXCEPT !.scrap = @ + amount], def, "totalScrapEarned", amount)

recordKill(save, def) == BumpStat(save, def, "totalKills", 1)

recordBossDefeat(save, def) == BumpStat(save, def, "bossesDefeated", 1)

\* an autoSave that leaves the stored item alone
autoSave_skips(save, def, ok, item, t) ==
    [save |-> SaveManager_save(save, def, Partial({}, DefaultFlat), ok, item, t).save,
     item |-> item]

\* GameScene.autoSave: SaveManager.save(SaveManager.getCurrent())
autoSave(save, def, ok, item, t) ==
    SaveManager_save(save, def, Partial({}, DefaultFlat), ok, item, t)

\* SaveManager.hasSave
hasSave(item) == item.kind # "none"

\* a spawn count without the cap
getSpawnCount_uncapped(globalWave) == 10 + ((globalWave - 1) \div 2)

\* getSpawnCount(globalWave) of GameConfig
getSpawnCount(globalWave) == Min(10 + ((globalWave - 1) \div 2), 45)

\* the global wave index a wave started on this save is scaled with:
\* sector * 12 + wave in startNextWave, (sector + 1) * 12 in spawnBoss
globalWaveOf(save) ==
    IF save.currentWave > WAVES_PER_SECTOR
    THEN (save.currentSector + 1) * WAVES_PER_SECTOR
    ELSE save.currentSector * WAVES_PER_SECTOR + save.currentWave

\* WaveManager.startNextWave; a boss wave spawns its boss at once
\* (spawnBoss), the enemies of another wave are spawned by update
startNextWave(g, save) ==
    LET boss == save.currentWave > WAVES_PER_SECTOR
    IN  [g EXCEPT !.waveInProgress = TRUE,
                  !.isBossWave = boss,
                  !.spawningComplete = boss,
                  !.spawnedCount = IF boss THEN 1 ELSE 0,
                  !.totalToSpawn = IF boss THEN 1
                                   ELSE getSpawnCount(globalWaveOf(save)),
                  !.bosses = IF boss THEN @ + 1 ELSE @]

\* Player.enableAutopilot
enableAutopilot(g) == [g EXCEPT !.autopilotEnabled = TRUE]

\* the hull of the Player constructor and of Player.applyHullUpgrade:
\* Math.round(PLAYER_BASE_HP * (1 + level * 0.10))
hullMaxHP(save, def) ==
    PLAYER_BASE_HP + (PLAYER_BASE_HP * getUpgradeLevel(save, def, "hull")) \div 10

\* Player.applyHullUpgrade (the HP it then writes to the save in memory
\* is not part of the model's save)
applyHullUpgrade(g, save, def) ==
    IF hullMaxHP(save, def) - g.maxHP <= 0 THEN g
    ELSE [g EXCEPT !.maxHP = hullMaxHP(save, def)]

\* GameScene.spawnDrones: the drones are destroyed and one is made for
\* each drone slot that is unlocked
spawnDrones(g, save, def) ==
    [g EXCEPT !.drones = (IF hasUpgrade(save, def, "droneSlot1") THEN 1 ELSE 0)
                         + (IF hasUpgrade(save, def, "droneSlot2") THEN 1 ELSE 0)]

\* GameScene.create: load the save, a new player, enemies group and
\* WaveManager, the drones, start the first wave
GameScene_create(item, def, g) ==
    LET loaded == SaveManager_load(item)
    IN  [save |-> loaded,
         game |-> startNextWave([spawnDrones(g, loaded, def)
                                    EXCEPT !.scene = "game", !.timers = 0,
                                          !.active = 0, !.bosses = 0, !.paused = FALSE,
                                          !.spawnedBefore = 0,
                                          !.autopilotEnabled = hasUpgrade(loaded, def, "autopilot"),
                                          !.maxHP = hullMaxHP(loaded, def)],
                                loaded)]

\* MenuScene.startGame, then GameScene.create
startGame(item, def, ok, t, g) ==
    LET r == calculateOfflineProgress(item, def, ok, t)
        c == GameScene_create(r.item, def, g)
    IN  [save |-> c.save, item |-> r.item, io |-> r.io,
         game |-> [c.game EXCEPT !.offlineScrap = r.scrap,
                                 !.credit = IF r.scrap > 0 /\ r.io = "ok"
                                            THEN [has |-> TRUE, at |-> t] ELSE @]]

\* MenuScene.create: the menu of a scene that has been shut down
MenuScene_create(item, g) ==
    [g EXCEPT !.scene = "menu", !.hasSave = hasSave(item),
              !.waveInProgress = FALSE, !.isBossWave = FALSE, !.timers = 0,
              !.spawnedCount = 0, !.totalToSpawn = 0, !.spawningComplete = FALSE,
              !.active = 0, !.bosses = 0, !.paused = FALSE, !.spawnedBefore = 0,
              !.autopilotEnabled = FALSE, !.maxHP = PLAYER_BASE_HP, !.drones = 0,
              !.offlineScrap = 0]

\* "New game" (confirmed when a save exists): reset(), startGame(). A reset
\* whose write throws ends the handler there.
MenuNewGame(ok, ok2) ==
    /\ game.scene = "menu"
    /\ LET fresh == [SpreadDefault EXCEPT !.lastSaveTime = now]
       IN  IF ~ok
           THEN /\ currentSave' = fresh
                /\ UNCHANGED <<storage, game>>
                /\ last' = [Call("newGame", "", 0, "threw") EXCEPT !.io = "failed"]
           ELSE LET r == startGame(Stringify(fresh, DEFAULT_SAVE), DEFAULT_SAVE, ok2, now, game)
                IN  /\ currentSave' = r.save
                    /\ storage' = r.item
                    /\ game' = r.game
                    /\ last' = [Call("newGame", "", 0, "void") EXCEPT !.io = "ok"]
    /\ UNCHANGED <<DEFAULT_SAVE, exported, now, calls, bought>>

\* "Continue": if (hasSave) { load(); startGame() }
MenuContinue(ok) ==
    /\ game.scene = "menu"
    /\ game.hasSave
    /\ LET r == startGame(storage, DEFAULT_SAVE, ok, now, game)
       IN  /\ currentSave' = r.save
           /\ storage' = r.item
           /\ game' = r.game
           /\ last' = [Call("continue", "", 0, "void") EXCEPT !.io = r.io]
    /\ UNCHANGED <<DEFAULT_SAVE, exported, now, calls, bought>>

\* the wave is over (WaveManager.ts:89-101 and 271-285): the boss wave is
\* next after wave 12, otherwise GameScene.onWaveComplete; either way
\* startNextWave is scheduled
waveCleared(save, g) ==
    [save |-> [save EXCEPT !.currentWave =
                  IF @ >= WAVES_PER_SECTOR THEN WAVES_PER_SECTOR + 1 ELSE @ + 1],
     game |-> [g EXCEPT !.waveInProgress = FALSE, !.timers = @ + 1,
                        !.spawnedBefore = 0]]

\* GameScene.onEnemyKilled for a regular enemy; lastOne: spawning is
\* complete and no enemy is active any more
EnemyKilled(scrap, lastOne) ==
    /\ game.scene = "game"
    /\ game.waveInProgress /\ ~game.isBossWave
    /\ LET kills == StatsOf(currentSave, DEFAULT_SAVE).totalKills
       IN  kills.k = "number" /\ kills.n < MaxKills
    /\ LET a == addScrap(currentSave, DEFAULT_SAVE, scrap)
           k == recordKill(a[1], a[2])
           w == IF lastOne THEN waveCleared(k[1], game) ELSE [save |-> k[1], game |-> game]
       IN  /\ currentSave' = w.save
           /\ DEFAULT_SAVE' = k[2]
           /\ game' = w.game
    /\ last' = Call("onEnemyKilled", "", scrap, Bool(lastOne))
    /\ UNCHANGED <<storage, exported, now, calls, bought>>

\* onBossDefeated that leaves the wave counter alone
sectorCleared_keepsWave(save) ==
    LET sector == save.currentSector + 1
    IN  [save EXCEPT !.cores = @ + 1, !.currentSector = sector,
                     !.highestSector = IF sector > @ THEN sector ELSE @]

\* onBossDefeated that restarts the waves at 0
sectorCleared_waveZero(save) ==
    LET sector == save.currentSector + 1
    IN  [save EXCEPT !.cores = @ + 1, !.currentWave = 0, !.currentSector = sector,
                     !.highestSector = IF sector > @ THEN sector ELSE @]

\* onBossDefeated that records the wave as the highest sector
sectorCleared_recordsWave(save) ==
    LET sector == save.currentSector + 1
    IN  [save EXCEPT !.cores = @ + 1, !.currentWave = 1, !.currentSector = sector,
                     !.highestSector = save.currentWave]

\* onBossDefeated that pays two cores
sectorCleared_twoCores(save) ==
    LET sector == save.currentSector + 1
    IN  [save EXCEPT !.cores = @ + 2, !.currentWave = 1, !.currentSector = sector,
                     !.highestSector = IF sector > @ THEN sector ELSE @]

\* onBossDefeated that stays in the sector
sectorCleared_sameSector(save) ==
    [save EXCEPT !.cores = @ + 1, !.currentWave = 1]

\* GameScene.onBossDefeated on a save: the sector is cleared
sectorCleared(save) ==
    LET sector == save.currentSector + 1
    IN  [save EXCEPT !.cores = @ + 1, !.currentWave = 1, !.currentSector = sector,
                     !.highestSector = IF sector > @ THEN sector ELSE @]

\* GameScene.onEnemyKilled for the boss, WaveManager.onEnemyKilled,
\* GameScene.onBossDefeated and, from sector 6 on, victory() and
\* VictoryScene.create
BossDefeatedOn(g, scrap, ok, ok2) ==
    /\ g.scene = "game"
    /\ currentSave.currentSector < MaxSector
    /\ LET a == addScrap(currentSave, DEFAULT_SAVE, scrap)
           k == recordKill(a[1], a[2])
           b == recordBossDefeat(k[1], k[2])
           s == autoSave(sectorCleared(b[1]), b[2], ok, storage, now)
           v == autoSave(s.save, b[2], ok2, s.item, now)
       IN  /\ DEFAULT_SAVE' = b[2]
           /\ IF s.save.currentSector >= 6
              THEN /\ currentSave' = SaveManager_load(v.item)
                   /\ storage' = v.item
                   /\ game' = [g EXCEPT !.scene = "victory", !.waveInProgress = FALSE,
                                        !.timers = 0, !.spawnedBefore = 0]
                   /\ last' = [Call("onBossDefeated", "", scrap, "victory")
                                  EXCEPT !.io = Write(ok2)]
              ELSE /\ currentSave' = s.save
                   /\ storage' = s.item
                   /\ game' = [g EXCEPT !.waveInProgress = FALSE, !.timers = @ + 1,
                                        !.spawnedBefore = 0]
                   /\ last' = [Call("onBossDefeated", "", scrap, "void")
                                  EXCEPT !.io = Write(ok)]
    /\ UNCHANGED <<exported, now, calls, bought>>

\* GameScene.onBossDefeated called while the scene runs
BossDefeated(scrap, ok, ok2) == BossDefeatedOn(game, scrap, ok, ok2)

\* Bound of the exploration: the enemies counted in spawnedBefore
MaxCarried == 1

\* the delayed call of startNextWave fires; in a regular wave still in
\* progress it sets spawnedCount back to 0 and the enemies spawned so far
\* stay on the field
StartNextWave ==
    /\ game.scene = "game" /\ ~game.paused
    /\ game.timers > 0
    /\ LET n == IF game.waveInProgress /\ ~game.isBossWave
                THEN game.spawnedBefore + game.spawnedCount
                ELSE 0
       IN  game' = startNextWave([game EXCEPT !.timers = @ - 1,
                                              !.spawnedBefore = IF n > MaxCarried
                                                                THEN MaxCarried ELSE n],
                                 currentSave)
    /\ last' = Call("startNextWave", "", 0, "void")
    /\ UNCHANGED <<currentSave, DEFAULT_SAVE, storage, exported, now, calls, bought>>

\* GameScene.purchaseUpgrade: what follows the purchase of the upgrades
\* that act on the player or on the drones
purchaseFeedback(g, id, save, def) ==
    IF id = "autopilot" THEN enableAutopilot(g)
    ELSE IF id = "hull" THEN applyHullUpgrade(g, save, def)
    ELSE IF id \in {"droneSlot1", "droneSlot2"} THEN spawnDrones(g, save, def)
    ELSE g

\* GameScene.purchaseUpgrade
PurchaseUpgrade(id, ok) ==
    /\ game.scene = "game"
    /\ IF canAfford(currentSave, DEFAULT_SAVE, id)
       THEN LET r == purchase(currentSave, DEFAULT_SAVE, id)
                s == autoSave(r.save, r.def, ok, storage, now)
            IN  /\ currentSave' = s.save
                /\ DEFAULT_SAVE' = r.def
                /\ storage' = s.item
                /\ last' = [Call("purchaseUpgrade", id, 0, Bool(r.ret)) EXCEPT !.io = Write(ok)]
       ELSE /\ UNCHANGED <<currentSave, DEFAULT_SAVE, storage>>
            /\ last' = Call("purchaseUpgrade", id, 0, "skipped")
    /\ game' = IF last'.ret = "skipped" THEN game
               ELSE purchaseFeedback(game, id, currentSave', DEFAULT_SAVE')
    /\ UNCHANGED <<exported, now, calls, bought>>

\* GameScene.updateDPSTracking, every second: the scrap earned in the
\* last second becomes scrapPerSecond of the save in memory
UpdateDPSTracking(sessionSPS) ==
    /\ game.scene = "game"
    /\ LET data == Partial({"scrapPerSecond"}, [DefaultFlat EXCEPT !.scrapPerSecond = sessionSPS])
           r    == SaveManager_update(currentSave, DEFAULT_SAVE, data, storage)
       IN  /\ r.save # currentSave
           /\ currentSave' = r.save
           /\ storage' = r.item
    /\ last' = Call("updateDPSTracking", "", sessionSPS, "void")
    /\ UNCHANGED <<DEFAULT_SAVE, exported, now, calls, bought, game>>

\* GameScene.toggleAutopilot (the HUD button and the T key)
ToggleAutopilot ==
    /\ game.scene = "game"
    /\ hasUpgrade(currentSave, DEFAULT_SAVE, "autopilot")
    /\ game' = [game EXCEPT !.autopilotEnabled = ~@]
    /\ last' = Call("toggleAutopilot", "", 0, Bool(game'.autopilotEnabled))
    /\ UNCHANGED <<currentSave, DEFAULT_SAVE, storage, exported, now, calls, bought>>

\* UpgradeManager.purchase called on the scene's manager
GamePurchase(id) ==
    /\ game.scene = "game"
    /\ PurchaseCall(id)
    /\ UNCHANGED <<calls, bought>>

\* the autosave timer (GameScene.ts:149-154)
AutoSaveTimer(ok) ==
    /\ game.scene = "game"
    /\ LET s == autoSave(currentSave, DEFAULT_SAVE, ok, storage, now)
       IN  /\ currentSave' = s.save
           /\ storage' = s.item
    /\ last' = [Call("autoSave", "", 0, "void") EXCEPT !.io = Write(ok)]
    /\ UNCHANGED <<DEFAULT_SAVE, exported, now, calls, bought, game>>

\* pause menu, "Quit": autoSave(), shutdown(), MenuScene
QuitToMenu(ok) ==
    /\ game.scene = "game"
    /\ LET s == autoSave(currentSave, DEFAULT_SAVE, ok, storage, now)
       IN  /\ currentSave' = s.save
           /\ storage' = s.item
           /\ game' = MenuScene_create(s.item, game)
    /\ last' = [Call("quit", "", 0, "void") EXCEPT !.io = Write(ok)]
    /\ UNCHANGED <<DEFAULT_SAVE, exported, now, calls, bought>>

\* VictoryScene, "Menu"
VictoryToMenu ==
    /\ game.scene = "victory"
    /\ game' = MenuScene_create(storage, game)
    /\ last' = Call("victoryMenu", "", 0, "void")
    /\ UNCHANGED <<currentSave, DEFAULT_SAVE, storage, exported, now, calls, bought>>

\* The waves of a campaign: the enemies of the group are counted, the
\* regular ones (active) and the bosses; spawning, shots, enemies passing
\* the bottom, the player's death and the delayed calls interleave freely.

\* Bounds of the exploration: regular enemies on screen at once, and
\* delayed calls pending when the player dies
MaxActive == 2
MaxTimers == 2

\* Bound of the exploration: the sectors whose boss is fought
MaxCampaign == 3

\* the storage writes of the campaign succeed (their failures are the
\* subject of Spec)
GameWrites == {TRUE}

MAX_ENEMIES == 60

\* the sector from which splitters are spawned (SECTOR_ENEMY_UNLOCKS)
SplitterSector == 3

Running == game.scene = "game" /\ ~game.paused

\* GameScene.gameOver: the scene pauses and the save is written
gameOver(save, def, g, ok, item, t) ==
    LET s == autoSave(save, def, ok, item, t)
    IN  [save |-> s.save, item |-> s.item, game |-> [g EXCEPT !.paused = TRUE]]

\* a WaveManager.update that never finds the field empty
allEnemiesGone_unchecked(g) == FALSE

\* WaveManager.update: "all enemies are gone (killed or escaped)"
allEnemiesGone(g) ==
    g.spawningComplete /\ ~g.isBossWave /\ g.active + g.bosses = 0

\* GameScene.update -> WaveManager.update; due: the spawn timer has run
\* out. A frame that changes nothing is a stuttering step.
WaveUpdate(due) ==
    /\ Running
    /\ game.waveInProgress
    /\ due => game.active < MaxActive
    /\ LET countActive == game.active + game.bosses
           w == IF allEnemiesGone(game)
                THEN waveCleared(currentSave, game)
                ELSE IF countActive >= MAX_ENEMIES \/ game.spawningComplete \/ game.isBossWave
                THEN [save |-> currentSave, game |-> game]
                ELSE LET spawn == due /\ game.spawnedCount < game.totalToSpawn
                         n     == game.spawnedCount + (IF spawn THEN 1 ELSE 0)
                     IN  [save |-> currentSave,
                          game |-> [game EXCEPT !.spawnedCount = n,
                                                !.active = @ + (IF spawn THEN 1 ELSE 0),
                                                !.spawningComplete = n >= game.totalToSpawn]]
       IN  /\ <<w.save, w.game>> # <<currentSave, game>>
           /\ currentSave' = w.save
           /\ game' = w.game
    /\ last' = Call("waveUpdate", "", 0, Bool(due))
    /\ UNCHANGED <<DEFAULT_SAVE, storage, exported, now, calls, bought>>

\* handleBulletHitEnemy kills a regular enemy: GameScene.onEnemyKilled
\* (with the minis of a splitter) and WaveManager.onEnemyKilled
EnemyShot(scrap, minis) ==
    /\ Running
    /\ game.active > 0
    /\ minis > 0 => /\ currentSave.currentSector >= SplitterSector
                    /\ game.active - 1 + minis <= MaxActive
    /\ LET kills == StatsOf(currentSave, DEFAULT_SAVE).totalKills
       IN  kills.k = "number" /\ kills.n < MaxKills
    /\ LET a == addScrap(currentSave, DEFAULT_SAVE, scrap)
           k == recordKill(a[1], a[2])
           g == [game EXCEPT !.active = @ - 1 + minis]
           w == IF g.spawningComplete /\ g.active + g.bosses = 0
                THEN waveCleared(k[1], g)
                ELSE [save |-> k[1], game |-> g]
       IN  /\ currentSave' = w.save
           /\ DEFAULT_SAVE' = k[2]
           /\ game' = w.game
    /\ last' = Call("enemyShot", "", scrap, "void")
    /\ UNCHANGED <<storage, exported, now, calls, bought>>

\* handleEnemyReachedBottom / handleEnemyHitPlayer for a regular enemy
\* that is no collector, the player surviving
EnemyEscapes ==
    /\ Running
    /\ game.active > 0
    /\ game' = [game EXCEPT !.active = @ - 1]
    /\ last' = Call("enemyEscapes", "", 0, "void")
    /\ UNCHANGED <<currentSave, DEFAULT_SAVE, storage, exported, now, calls, bought>>

\* the boss is shot dead, or passes the bottom or rams the player who
\* survives it: GameScene.onEnemyKilled(boss)
BossDown(scrap, ok, ok2) ==
    /\ Running
    /\ game.bosses > 0
    /\ BossDefeatedOn([game EXCEPT !.bosses = @ - 1], scrap, ok, ok2)

\* the same within the sectors explored with every interleaving
BossKilled(scrap, ok, ok2) ==
    /\ currentSave.currentSector < MaxCampaign
    /\ BossDown(scrap, ok, ok2)

\* the player's HP runs out: by an enemy bullet, or by an enemy or a boss
\* that passes the bottom or rams the player and is destroyed
PlayerDies(by, ok) ==
    /\ Running
    /\ game.timers < MaxTimers
    /\ by = "enemy" => game.active > 0
    /\ by = "boss" => game.bosses > 0
    /\ LET g == [game EXCEPT !.active = IF by = "enemy" THEN @ - 1 ELSE @,
                             !.bosses = IF by = "boss" THEN @ - 1 ELSE @]
           r == gameOver(currentSave, DEFAULT_SAVE, g, ok, storage, now)
       IN  /\ currentSave' = r.save
           /\ storage' = r.item
           /\ game' = r.game
    /\ last' = [Call("gameOver", by, 0, "void") EXCEPT !.io = Write(ok)]
    /\ UNCHANGED <<DEFAULT_SAVE, exported, now, calls, bought>>

\* game over, "Continue": WaveManager.restartCurrentWave
ContinueGame ==
    /\ game.scene = "game" /\ game.paused
    /\ game' = startNextWave([game EXCEPT !.paused = FALSE, !.active = 0, !.bosses = 0,
                                          !.spawnedBefore = 0],
                             currentSave)
    /\ last' = Call("continueGame", "", 0, "void")
    /\ UNCHANGED <<currentSave, DEFAULT_SAVE, storage, exported, now, calls, bought>>

\* game over, "Menu"
GameOverToMenu ==
    /\ game.scene = "game" /\ game.paused
    /\ game' = MenuScene_create(storage, game)
    /\ last' = Call("gameOverMenu", "", 0, "void")
    /\ UNCHANGED <<currentSave, DEFAULT_SAVE, storage, exported, now, calls, bought>>

GameNext ==
    \/ \E ok \in GameWrites, ok2 \in GameWrites : MenuNewGame(ok, ok2)
    \/ \E ok \in GameWrites : MenuContinue(ok)
    \/ \E due \in BOOLEAN : WaveUpdate(due)
    \/ \E scrap \in KillScraps, minis \in {0, 2} : EnemyShot(scrap, minis)
    \/ EnemyEscapes
    \/ \E scrap \in BossScraps, ok \in GameWrites, ok2 \in GameWrites : BossKilled(scrap, ok, ok2)
    \/ \E by \in {"bullet", "enemy", "boss"}, ok \in GameWrites : PlayerDies(by, ok)
    \/ ContinueGame
    \/ GameOverToMenu
    \/ StartNextWave
    \/ \E ok \in GameWrites : QuitToMenu(ok)

GameSpec == Init /\ [][GameNext]_vars

\* One game from the default save: kills and boss defeats bring scrap,
\* cores and sectors, the shop is used at any moment.
GatedShopIds == {"autoFire", "autopilot", "autopilotV2", "droneSlot1", "weaponModSlot"}

GatingNext ==
    \/ \E ok \in GameWrites, ok2 \in GameWrites : MenuNewGame(ok, ok2)
    \/ \E scrap \in KillScraps, lastOne \in BOOLEAN : EnemyKilled(scrap, lastOne)
    \/ \E scrap \in BossScraps, ok \in GameWrites, ok2 \in GameWrites : BossDefeated(scrap, ok, ok2)
    \/ StartNextWave
    \/ \E id \in GatedShopIds, ok \in GameWrites : PurchaseUpgrade(id, ok)
    \/ \E id \in GatedShopIds : GamePurchase(id)

GatingSpec == Init /\ [][GatingNext]_vars

\* The shop and the player: the upgrades whose purchase acts on the
\* player or on the drones, bought at any moment of one game.
PlayerShopIds == {"autoFire", "autopilot", "hull", "droneSlot1"}

PlayerNext ==
    \/ \E ok \in GameWrites, ok2 \in GameWrites : MenuNewGame(ok, ok2)
    \/ \E ok \in GameWrites : MenuContinue(ok)
    \/ \E scrap \in KillScraps, lastOne \in BOOLEAN : EnemyKilled(scrap, lastOne)
    \/ \E scrap \in BossScraps, ok \in GameWrites, ok2 \in GameWrites : BossDefeated(scrap, ok, ok2)
    \/ StartNextWave
    \/ \E id \in PlayerShopIds, ok \in GameWrites : PurchaseUpgrade(id, ok)
    \/ ToggleAutopilot
    \/ \E ok \in GameWrites : QuitToMenu(ok)

PlayerSpec == Init /\ [][PlayerNext]_vars

\* Sessions of the game: the player earns scrap, quits to the menu, is
\* away for a while and comes back through "New game" or "Continue".
AbsenceSteps == {30, 60}

SessionRates == {0, 2}

AbsenceNext ==
    \/ \E ok \in BOOLEAN, ok2 \in BOOLEAN : MenuNewGame(ok, ok2)
    \/ \E ok \in BOOLEAN : MenuContinue(ok)
    \/ \E sps \in SessionRates : UpdateDPSTracking(sps)
    \/ \E ok \in BOOLEAN : AutoSaveTimer(ok)
    \/ \E ok \in BOOLEAN : QuitToMenu(ok)
    \/ \E d \in AbsenceSteps : Tick(d)

AbsenceSpec == Init /\ [][AbsenceNext]_vars

\* A campaign in which the player does not die: the frames keep coming
\* (update runs every frame, and the scene clock fires the delayed calls
\* of a scene that is not paused) and the enemies on the field go on
\* moving down until they leave it.
WaveNext ==
    \/ \E ok \in GameWrites, ok2 \in GameWrites : MenuNewGame(ok, ok2)
    \/ \E due \in BOOLEAN : WaveUpdate(due)
    \/ \E scrap \in KillScraps, minis \in {0, 2} : EnemyShot(scrap, minis)
    \/ EnemyEscapes
    \/ \E scrap \in BossScraps, ok \in GameWrites, ok2 \in GameWrites : BossKilled(scrap, ok, ok2)
    \/ StartNextWave

WaveFairness ==
    /\ WF_vars(WaveUpdate(TRUE))
    /\ WF_vars(EnemyEscapes)
    /\ WF_vars(StartNextWave)

WaveSpec == Init /\ [][WaveNext]_vars /\ WaveFairness

\* A whole campaign, wave after wave up to the victory, played without a
\* game over; the menu starts it and continues it from the persisted save.
CampaignNext ==
    \/ \E ok \in GameWrites, ok2 \in GameWrites : MenuNewGame(ok, ok2)
    \/ \E ok \in GameWrites : MenuContinue(ok)
    \/ \E due \in BOOLEAN : WaveUpdate(due)
    \/ \E scrap \in KillScraps, minis \in {0, 2} : EnemyShot(scrap, minis)
    \/ EnemyEscapes
    \/ \E scrap \in BossScraps, ok \in GameWrites, ok2 \in GameWrites : BossDown(scrap, ok, ok2)
    \/ StartNextWave
    \/ VictoryToMenu

CampaignSpec == Init /\ [][CampaignNext]_vars

----
\* The shop during a campaign, with the waves left out: the public handlers
\* of GameScene are called in any order while the scene runs, so a sector
\* is cleared (onBossDefeated) without the twelve waves before it.
\* localStorage takes every write of the campaign (refused writes are the
\* subject of Spec)
ShopWrites == {TRUE}

ShopNext ==
    \/ \E ok \in ShopWrites, ok2 \in ShopWrites : MenuNewGame(ok, ok2)
    \/ \E ok \in ShopWrites : MenuContinue(ok)
    \/ \E scrap \in KillScraps : EnemyKilled(scrap, FALSE)
    \/ \E scrap \in BossScraps, ok \in ShopWrites, ok2 \in ShopWrites : BossDefeated(scrap, ok, ok2)
    \/ StartNextWave
    \/ \E id \in GameShopIds, ok \in ShopWrites : PurchaseUpgrade(id, ok)
    \/ \E id \in GameShopIds : GamePurchase(id)
    \/ \E ok \in ShopWrites : AutoSaveTimer(ok)
    \/ \E ok \in ShopWrites : QuitToMenu(ok)
    \/ VictoryToMenu

ShopSpec == Init /\ [][ShopNext]_vars

\* The progress of a save through the handlers that write it: kills and
\* wave completions, boss defeats, purchases with scrap and with cores,
\* the autosave timer, quitting and continuing; storage writes may fail.
ProgressShopIds == {"autoFire", "weaponModSlot"}

ProgressNext ==
    \/ \E ok \in BOOLEAN, ok2 \in BOOLEAN : MenuNewGame(ok, ok2)
    \/ \E ok \in BOOLEAN : MenuContinue(ok)
    \/ \E scrap \in KillScraps, lastOne \in BOOLEAN : EnemyKilled(scrap, lastOne)
    \/ \E scrap \in BossScraps, ok \in BOOLEAN, ok2 \in BOOLEAN : BossDefeated(scrap, ok, ok2)
    \/ StartNextWave
    \/ \E id \in ProgressShopIds, ok \in BOOLEAN : PurchaseUpgrade(id, ok)
    \/ \E id \in ProgressShopIds : GamePurchase(id)
    \/ \E ok \in BOOLEAN : AutoSaveTimer(ok)
    \/ \E ok \in BOOLEAN : QuitToMenu(ok)
    \/ VictoryToMenu

ProgressSpec == Init /\ [][ProgressNext]_vars

----
\* The pure functions of GameConfig, applied to inputs drawn at the start;
\* last holds the call: its argument and the value returned.

\* the rest of the state, which these calls neither read nor write
Idle ==
    /\ currentSave = SpreadDefault
    /\ DEFAULT_SAVE = [upgrades |-> EmptyUpgrades, stats |-> DefaultStats]
    /\ storage = NoItem
    /\ exported = [text |-> NoItem]
    /\ now = 0
    /\ calls = 0
    /\ bought = {}
    /\ game = [scene |-> "menu", hasSave |-> FALSE, waveInProgress |-> FALSE,
               isBossWave |-> FALSE, timers |-> 0,
               spawnedCount |-> 0, totalToSpawn |-> 0, spawningComplete |-> FALSE,
               active |-> 0, bosses |-> 0, paused |-> FALSE, spawnedBefore |-> 0,
               autopilotEnabled |-> FALSE, maxHP |-> PLAYER_BASE_HP, drones |-> 0,
               offlineScrap |-> 0, credit |-> [has |-> FALSE, at |-> 0]]

\* Bound of the exploration: the global waves getSpawnCount is applied to
\* (the campaign has 1..72, the cap is reached at 71)
MaxGlobalWave == 120

SpawnCountInit ==
    /\ Idle
    /\ \E g \in 1..MaxGlobalWave : last = [op |-> "input", arg |-> g, value |-> 0]

\* getSpawnCount(globalWave) is called
ApplySpawnCount ==
    /\ last.op = "input"
    /\ last' = [op |-> "getSpawnCount", arg |-> last.arg, value |-> getSpawnCount(last.arg)]
    /\ UNCHANGED <<currentSave, DEFAULT_SAVE, storage, exported, now, calls, bought, game>>

\* getSpawnCount is called for the wave after the last one
ApplySpawnCountOfNext ==
    /\ last.op = "getSpawnCount"
    /\ last.arg < MaxGlobalWave
    /\ last' = [op |-> "getSpawnCount", arg |-> last.arg + 1,
                value |-> getSpawnCount(last.arg + 1)]
    /\ UNCHANGED <<currentSave, DEFAULT_SAVE, storage, exported, now, calls, bought, game>>

SpawnCountNext == ApplySpawnCount \/ ApplySpawnCountOfNext

SpawnCountSpec == SpawnCountInit /\ [][SpawnCountNext]_vars

\* Bounds of the exploration: the base costs and the levels getUpgradeCost
\* is applied to (UPGRADES has base costs 20..60 for repeatable upgrades and
\* at most 20 levels; the last tier jump starts at level 21)
MaxBaseCost == 60
MaxCostLevel == 25

UpgradeCostInit ==
    /\ Idle
    /\ \E baseCost \in 1..MaxBaseCost :
          last = [op |-> "input", baseCost |-> baseCost, level |-> 1, value |-> 0]

\* getUpgradeCost(baseCost, 1) is called
ApplyUpgradeCost ==
    /\ last.op = "input"
    /\ last' = [op |-> "getUpgradeCost", baseCost |-> last.baseCost, level |-> last.level,
                value |-> getUpgradeCost(last.baseCost, last.level)]
    /\ UNCHANGED <<currentSave, DEFAULT_SAVE, storage, exported, now, calls, bought, game>>

\* getUpgradeCost is called for the level after the last one
ApplyUpgradeCostOfNext ==
    /\ last.op = "getUpgradeCost"
    /\ last.level < MaxCostLevel
    /\ last' = [op |-> "getUpgradeCost", baseCost |-> last.baseCost, level |-> last.level + 1,
                value |-> getUpgradeCost(last.baseCost, last.level + 1)]
    /\ UNCHANGED <<currentSave, DEFAULT_SAVE, storage, exported, now, calls, bought, game>>

UpgradeCostNext == ApplyUpgradeCost \/ ApplyUpgradeCostOfNext

UpgradeCostSpec == UpgradeCostInit /\ [][UpgradeCostNext]_vars

----
\* Properties

Cur == Value(currentSave, DEFAULT_SAVE)
CurNext == Value(currentSave', DEFAULT_SAVE')

LevelsUnchanged(ids) ==
    \A k \in ids : getUpgradeLevel(currentSave', DEFAULT_SAVE', k)
                     = getUpgradeLevel(currentSave, DEFAULT_SAVE, k)

CurrencyAndLevelsUnchanged ==
    /\ currentSave'.scrap = currentSave.scrap
    /\ currentSave'.cores = currentSave.cores
    /\ LevelsUnchanged(UpgradeKeys)

\* C1: purchase(id) is all-or-nothing. When it returns false, scrap, cores
\* and every upgrade level are what they were before the call; when it
\* returns true, scrap has dropped by getCost(id).scrap and cores by
\* getCost(id).cores as computed before the call, the level of id has risen
\* by exactly 1 and no other level has changed.
PurchaseAllOrNothing ==
    [][(Called /\ last'.op = "purchase") =>
        LET id   == last'.id
            cost == getCost(currentSave, DEFAULT_SAVE, id)
        IN  IF last'.ret = "false"
            THEN CurrencyAndLevelsUnchanged
            ELSE /\ currentSave'.scrap = currentSave.scrap - cost.scrap
                 /\ currentSave'.cores = currentSave.cores - cost.cores
                 /\ getUpgradeLevel(currentSave', DEFAULT_SAVE', id)
                      = getUpgradeLevel(currentSave, DEFAULT_SAVE, id) + 1
                 /\ LevelsUnchanged(UpgradeKeys \ {id})]_vars

\* a purchase that cost cores went through, and one was refused
PurchaseAllOrNothingWitness ==
    /\ last.op = "purchase" /\ last.ret = "true" /\ last.id = "weaponModSlot"
    /\ currentSave.cores = 1

\* C2: scrap >= 0 and cores >= 0 in every reachable state of the save.
NonNegativeCurrency ==
    currentSave.scrap >= 0 /\ currentSave.cores >= 0

\* C3: for every upgrade id of the catalog, the stored level never exceeds
\* that upgrade's maxLevel in any state reached from the default save by
\* purchase and purchaseUpgrade calls interleaved with currency gains and
\* sector progression.
LevelWithinCeiling ==
    \A id \in UpgradeIds :
        getUpgradeLevel(currentSave, DEFAULT_SAVE, id) <= UPGRADES[id].maxLevel

\* a repeatable upgrade and an unlock gated on a sector are at their
\* ceilings, and a purchaseUpgrade of one of them has just been refused
LevelWithinCeilingWitness ==
    /\ last.op = "purchaseUpgrade" /\ last.ret = "false"
    /\ last.id \in {"critMultiplier", "weaponModSlot"}
    /\ getUpgradeLevel(currentSave, DEFAULT_SAVE, "critMultiplier")
         = UPGRADES["critMultiplier"].maxLevel
    /\ getUpgradeLevel(currentSave, DEFAULT_SAVE, "weaponModSlot") = 1
    /\ currentSave.scrap > 0 /\ currentSave.cores > 0

\* what calculateOfflineProgress is to return for the persisted item
OfflineAmount(item, t) ==
    LET loaded  == SaveManager_load(item)
        elapsed == t - loaded.lastSaveTime
        sps     == loaded.scrapPerSecond
    IN  IF elapsed < 60 \/ sps <= 0 THEN 0
        ELSE IF elapsed > 8 * 3600 THEN sps * 8 * 3600
        ELSE sps * elapsed

\* C11 as stated: calculateOfflineProgress returns 0 and credits nothing
\* when elapsed < 60 or sps <= 0, sps * 8 * 3600 past the cap, sps * elapsed
\* otherwise; in the non-zero cases scrap grows by the returned amount and
\* the new state is persisted.
OfflineProgressPersisted ==
    [][(Called /\ last'.op = "calculateOfflineProgress") =>
        LET loaded == SaveManager_load(storage)
            amount == OfflineAmount(storage, now)
        IN  /\ last'.amount = amount
            /\ currentSave'.scrap = loaded.scrap + amount
            /\ amount = 0 => storage' = storage
            /\ amount # 0 => storage' = Stringify(currentSave', DEFAULT_SAVE')]_vars

\* C11, amended: the amounts and the credit are as stated; in the non-zero
\* cases the new state is persisted when the storage write succeeds, and
\* when the write fails the credit is in memory only and the persisted
\* copy is what it was.
OfflineProgressRule ==
    [][(Called /\ last'.op = "calculateOfflineProgress") =>
        LET loaded == SaveManager_load(storage)
            amount == OfflineAmount(storage, now)
        IN  /\ last'.amount = amount
            /\ currentSave'.scrap = loaded.scrap + amount
            /\ amount = 0 => storage' = storage
            /\ (amount # 0 /\ last'.io = "ok") =>
                  /\ storage' = Stringify(currentSave', DEFAULT_SAVE')
                  /\ storage'.val.scrap = loaded.scrap + amount
            /\ (amount # 0 /\ last'.io # "ok") => storage' = storage]_vars

\* the capped amount has been credited and persisted
OfflineProgressRuleWitness ==
    /\ last.op = "calculateOfflineProgress" /\ last.io = "ok"
    /\ last.amount = currentSave.scrapPerSecond * 8 * 3600
    /\ last.amount > 0
    /\ storage.kind = "json" /\ storage.val.scrap = currentSave.scrap

FailedImportLeavesState ==
    [][(Called /\ last'.op = "importSave" /\ last'.ret = "false") =>
        (CurNext = Cur /\ storage' = storage)]_vars

\* C5: after reset() returns, the in-memory save equals the documented
\* defaults (level 0 for every upgrade, every stats counter 0) and the
\* persisted snapshot equals that state.
ResetRestoresDefaults ==
    [][(Called /\ last'.op = "reset" /\ last'.ret = "void") =>
        /\ \A f \in SaveFields \ {"lastSaveTime"} : CurNext[f] = DefaultVal[f]
        /\ storage'.kind = "json"
        /\ storage'.val = CurNext]_vars

\* C6: importSave of the text exportSave returned in state S returns true
\* and leaves the save equal to S in every persisted field, timestamps
\* aside, whatever ran in between (stated for imports whose write to
\* storage does not fail).
ExportImportRoundTrip ==
    [][(Called /\ last'.op = "importSave" /\ exported.text.kind = "json"
           /\ last'.text = exported.text /\ last'.io # "failed") =>
        /\ last'.ret = "true"
        /\ \A f \in SaveFields \ {"lastSaveTime"} : CurNext[f] = exported.from[f]]_vars

\* C7: load() fills a stats field or upgrade id the persisted snapshot
\* lacks with its default (0), and keeps every value the snapshot has.
LoadDeepMerges ==
    [][(Called /\ last'.op = "load" /\ storage.kind = "json") =>
        /\ \A f \in StatFields :
              CurNext.stats[f] = IF storage.val.stats[f] = UNDEFINED
                                 THEN Num(0) ELSE storage.val.stats[f]
        /\ \A id \in UpgradeKeys : CurNext.upgrades[id] = storage.val.upgrades[id]]_vars

\* C8: spendScrap(amount) with amount > scrap returns false and leaves scrap
\* unchanged, with amount <= scrap returns true and leaves scrap = before -
\* amount; spendCores does the same on cores; neither changes another field.
SpendFailsClosed ==
    [][(Called /\ last'.op \in {"spendScrap", "spendCores"}) =>
        LET f      == IF last'.op = "spendScrap" THEN "scrap" ELSE "cores"
            amount == last'.amount
        IN  /\ amount > Cur[f] => (last'.ret = "false" /\ CurNext = Cur)
            /\ amount <= Cur[f] =>
                  (last'.ret = "true" /\ CurNext = [Cur EXCEPT ![f] = @ - amount])
            /\ storage' = storage]_vars

\* the whole balance was spent
SpendFailsClosedWitness ==
    /\ last.op = "spendScrap" /\ last.ret = "true"
    /\ currentSave.scrap = 0 /\ last.amount > 0

IsOneShot(id) == id \in UpgradeIds /\ UPGRADES[id].isUnlock /\ UPGRADES[id].maxLevel = 1

\* C9 as stated: once purchase(id) has succeeded for a one-shot unlock,
\* every later purchase(id) returns false and changes nothing.
OneShotBoughtOnce ==
    [][(Called /\ last'.op = "purchase" /\ last'.id \in bought /\ IsOneShot(last'.id)) =>
        (last'.ret = "false" /\ CurrencyAndLevelsUnchanged)]_vars

\* C9, amended: from the fresh default state addScrap(200) then
\* purchase('autoFire') succeeds and leaves scrap = 80 and autoFire owned;
\* and a purchase(id) of a one-shot unlock whose level is already 1 returns
\* false and leaves scrap, cores and all levels unchanged.
OneShotUnlock ==
    [][(Called /\ last'.op = "purchase") =>
        /\ (calls = 1 /\ last.op = "addScrap" /\ last.amount = 200 /\ last'.id = "autoFire") =>
              /\ last'.ret = "true"
              /\ currentSave'.scrap = 80
              /\ hasUpgrade(currentSave', DEFAULT_SAVE', "autoFire")
        /\ (IsOneShot(last'.id) /\ getUpgradeLevel(currentSave, DEFAULT_SAVE, last'.id) >= 1) =>
              (last'.ret = "false" /\ CurrencyAndLevelsUnchanged)]_vars

\* a bought unlock was refused although the player could pay for it again
OneShotUnlockWitness ==
    /\ last.op = "purchase" /\ last.ret = "false"
    /\ IsOneShot(last.id) /\ last.id \in bought
    /\ getUpgradeLevel(currentSave, DEFAULT_SAVE, last.id) = 1
    /\ UPGRADES[last.id].baseCost > 0
    /\ currentSave.scrap >= UPGRADES[last.id].baseCost

\* the conditions under which an upgrade cannot be bought
Gated(save, def, id) ==
    \/ id \notin UpgradeIds
    \/ UpgradesOf(save, def)[id] >= UPGRADES[id].maxLevel
    \/ UPGRADES[id].sectorRequired # NoSector /\ UPGRADES[id].sectorRequired > save.highestSector
    \/ UPGRADES[id].prerequisite # "" /\ UpgradesOf(save, def)[UPGRADES[id].prerequisite] = 0

\* C10: isAvailable(id) reports unavailable, with a non-empty reason,
\* exactly when the id is unknown, its level is at maxLevel, its
\* sectorRequired exceeds highestSector or its prerequisite has level 0;
\* otherwise available with an empty reason.
AvailabilityRule ==
    \A id \in UpgradeKeys :
        LET r == isAvailable(currentSave, DEFAULT_SAVE, id)
        IN  /\ r.available <=> ~Gated(currentSave, DEFAULT_SAVE, id)
            /\ r.available <=> r.reason = ""

\* the gate passes on highestSector where currentSector alone would fail,
\* and fails on highestSector where currentSector alone would pass
AvailabilityRuleWitness ==
    /\ currentSave.currentSector < 3 /\ currentSave.highestSector >= 3
    /\ isAvailable(currentSave, DEFAULT_SAVE, "weaponModSlot").available
    /\ ~isAvailable(currentSave, DEFAULT_SAVE, "autopilotV3").available

----
\* A step in which a regular wave is found complete, by update or by the
\* kill of its last enemy: the next wave is scheduled.
WaveCompletes ==
    /\ last'.op \in {"waveUpdate", "enemyShot"}
    /\ game'.timers = game.timers + 1

\* C13: the completion of wave w <= 12 sets currentWave to w + 1 (13 from
\* 12) and changes neither currentSector nor highestSector; a boss defeat
\* in sector s sets currentWave to 1 and currentSector to s + 1, and
\* raises highestSector to s + 1 when it was lower.
SectorProgression ==
    [][ /\ (WaveCompletes /\ currentSave.currentWave <= WAVES_PER_SECTOR) =>
              /\ currentSave'.currentWave = currentSave.currentWave + 1
              /\ currentSave'.currentSector = currentSave.currentSector
              /\ currentSave'.highestSector = currentSave.highestSector
        /\ last'.op = "onBossDefeated" =>
              /\ currentSave'.currentWave = 1
              /\ currentSave'.currentSector = currentSave.currentSector + 1
              /\ currentSave'.highestSector =
                    IF currentSave.highestSector < currentSave.currentSector + 1
                    THEN currentSave.currentSector + 1
                    ELSE currentSave.highestSector ]_vars

\* the boss of sector 0 has just been defeated, after the twelve waves
SectorProgressionWitness ==
    /\ last.op = "onBossDefeated"
    /\ currentSave.currentWave = 1
    /\ currentSave.currentSector = 1
    /\ currentSave.highestSector = 1

\* C14: currentSector is within 0..5 in every state reached from the
\* default save through wave completions and boss defeats, in memory and in
\* the persisted copy, the one written after the boss of sector 5 included.
SectorWithinCampaign ==
    /\ currentSave.currentSector \in 0..5
    /\ storage.kind = "json" => storage.val.currentSector \in 0..5

\* C15: currentWave is within 1..13 in every state of a campaign, whatever
\* the interleaving of spawns, kills, enemies leaving, completions found by
\* update, delayed startNextWave calls, boss defeats, game over and
\* continue.
WaveWithinSector == currentSave.currentWave \in 1..(WAVES_PER_SECTOR + 1)

\* a boss wave runs after a game over and "Continue", with a delayed
\* startNextWave still pending
WaveWithinSectorWitness ==
    /\ last.op = "continueGame"
    /\ currentSave.currentWave = WAVES_PER_SECTOR + 1
    /\ game.isBossWave /\ game.bosses = 1
    /\ game.timers > 0

FailedSaveKeepsMemory ==
    [][(Called /\ last'.op = "save" /\ last'.io = "failed") =>
        /\ last'.ret = "void"
        /\ currentSave' = [SpreadFlat(currentSave, last'.text) EXCEPT !.lastSaveTime = now]
        /\ storage' = storage]_vars

\* save({scrap: 500}) failed over an older persisted copy
FailedSaveKeepsMemoryWitness ==
    /\ last.op = "save" /\ last.io = "failed"
    /\ last.text.has = {"scrap"}
    /\ currentSave.scrap = 500
    /\ storage.kind = "json" /\ storage.val.scrap # 500
    /\ currentSave.lastSaveTime > storage.val.lastSaveTime

\* C20: update(partial) changes memory only: the persisted snapshot is
\* what it was, the fields the partial names take its values and every
\* other field keeps its value.
UpdateChangesMemoryOnly ==
    [][(Called /\ last'.op = "update") =>
        /\ storage' = storage
        /\ \A f \in SaveFields :
              CurNext[f] = IF f \in last'.text.has THEN last'.text.val[f] ELSE Cur[f]]_vars

\* update({currentWave: 5, currentSector: 2}) over a persisted copy that
\* holds other values
UpdateChangesMemoryOnlyWitness ==
    /\ last.op = "update" /\ last.text.has = {"currentWave", "currentSector"}
    /\ currentSave.currentWave = 5 /\ currentSave.currentSector = 2
    /\ currentSave.scrap > 0
    /\ storage.kind = "json" /\ storage.val.currentWave = 1 /\ storage.val.scrap > 0

\* C18: load() with no persisted snapshot, or with one that does not
\* parse, returns normally and leaves the default state in memory (level 0
\* for every upgrade, every stats counter 0), whatever was there before.
LoadFallsBackToDefaults ==
    [][(Called /\ last'.op = "load" /\ storage.kind # "json") =>
        /\ last'.ret = "void"
        /\ \A f \in SaveFields : CurNext[f] = DefaultVal[f]]_vars

\* C19: right after GameScene.purchaseUpgrade(id) has made a purchase and
\* its storage write has succeeded, the persisted snapshot holds the same
\* level of id, the same scrap and the same cores as the in-memory save.
PurchasePersisted ==
    (last.op = "purchaseUpgrade" /\ last.ret = "true" /\ last.io = "ok") =>
        /\ storage.kind = "json"
        /\ storage.val.upgrades[last.id] = UpgradesOf(currentSave, DEFAULT_SAVE)[last.id]
        /\ storage.val.scrap = currentSave.scrap
        /\ storage.val.cores = currentSave.cores

\* the weapon mod slot has been bought with a core and persisted, after an
\* earlier purchase with scrap
PurchasePersistedWitness ==
    /\ last.op = "purchaseUpgrade" /\ last.ret = "true" /\ last.io = "ok"
    /\ last.id = "weaponModSlot"
    /\ storage.kind = "json"
    /\ storage.val.upgrades["weaponModSlot"] = 1
    /\ storage.val.upgrades["autoFire"] = 1

\* C21: getSpawnCount(g) is min(45, 10 + floor((g - 1) / 2)) for every
\* global wave g >= 1: 10 at g = 1, 45 at g = 71, never above 45, and the
\* count of wave g + 1 is never below the count of wave g.
SpawnCountRule ==
    [][last'.op = "getSpawnCount" =>
        LET g       == last'.arg
            n       == last'.value
            natural == 10 + ((g - 1) \div 2)
        IN  /\ n = IF natural < 45 THEN natural ELSE 45
            /\ g = 1 => n = 10
            /\ g = 71 => n = 45
            /\ n <= 45
            /\ (last.op = "getSpawnCount" /\ g = last.arg + 1) => n >= last.value]_vars

\* getSpawnCount(71) has returned the cap
SpawnCountRuleWitness ==
    /\ last.op = "getSpawnCount"
    /\ last.arg = 71 /\ last.value = 45

\* the call follows the call for the level before, same base cost
CostOfNextLevel ==
    /\ last.op = "getUpgradeCost" /\ last'.op = "getUpgradeCost"
    /\ last'.level = last.level + 1

\* C22 as stated: getUpgradeCost(25, 1) is 25; for every positive baseCost
\* the cost is strictly increasing in the level; the cost at level 6 is at
\* least 1.6 times the cost at level 5.
UpgradeCostStrictlyIncreasing ==
    [][last'.op = "getUpgradeCost" =>
        /\ (last'.baseCost = 25 /\ last'.level = 1) => last'.value = 25
        /\ CostOfNextLevel => last'.value > last.value
        /\ (CostOfNextLevel /\ last'.level = 6) => 10 * last'.value >= 16 * last.value]_vars

\* C22, amended: getUpgradeCost(25, 1) is 25; the cost never decreases
\* with the level, and it is strictly increasing for every baseCost of 4
\* and more (the rounding makes the costs of two levels equal for the base
\* costs 1, 2 and 3); the cost at level 6 is at least 1.6 times the cost at
\* level 5.
UpgradeCostIncreasing ==
    [][last'.op = "getUpgradeCost" =>
        /\ (last'.baseCost = 25 /\ last'.level = 1) => last'.value = 25
        /\ CostOfNextLevel => last'.value >= last.value
        /\ (CostOfNextLevel /\ last'.baseCost >= 4) => last'.value > last.value
        /\ (CostOfNextLevel /\ last'.level = 6) => 10 * last'.value >= 16 * last.value]_vars

\* the cost of level 6 of a baseCost-25 upgrade, past the first tier jump
UpgradeCostIncreasingWitness ==
    /\ last.op = "getUpgradeCost"
    /\ last.baseCost = 25 /\ last.level = 6
    /\ 10 * last.value >= 16 * getUpgradeCost(25, 5)
    /\ getUpgradeCost(25, 1) = 25

\* the cores paid for the upgrades of ids that the save owns
RECURSIVE CoresSpentOn(_, _, _)
CoresSpentOn(ids, save, def) ==
    IF ids = {} THEN 0
    ELSE LET id == CHOOSE x \in ids : TRUE
         IN  (IF getUpgradeLevel(save, def, id) > 0 THEN UPGRADES[id].coresCost ELSE 0)
             + CoresSpentOn(ids \ {id}, save, def)

GlobalWaveMonotone ==
    [][/\ last'.op \notin {"newGame", "continue"} =>
              globalWaveOf(currentSave') >= globalWaveOf(currentSave)
       /\ (last'.op = "startNextWave" /\ ~game'.isBossWave) =>
              game'.totalToSpawn = getSpawnCount(globalWaveOf(currentSave))]_vars

\* the first wave of sector 1 has started, after the boss of sector 0
GlobalWaveMonotoneWitness ==
    /\ last.op = "startNextWave"
    /\ game.waveInProgress /\ ~game.isBossWave
    /\ globalWaveOf(currentSave) = WAVES_PER_SECTOR + 1
    /\ StatsOf(currentSave, DEFAULT_SAVE).bossesDefeated = Num(1)

\* C25: each pass through a boss wave advances the campaign by one
\* sector: no more than one boss is on the field, and onBossDefeated runs
\* only on a save whose currentWave is the boss marker 13 (so once per
\* pass), also when a game over and Continue happen while the delayed
\* startNextWave scheduled at the wave completion is pending.
OneSectorPerBossWave ==
    [][/\ game'.bosses <= 1
       /\ last'.op = "onBossDefeated" => currentSave.currentWave = WAVES_PER_SECTOR + 1]_vars

\* C26: in a regular wave WaveManager never spawns more enemies than
\* getSpawnCount of the wave's global index, counted from the start or
\* restart of the wave to its completion, whatever the interleaving of
\* spawn ticks, kills, escapes, delayed startNextWave calls and restarts.
SpawnsWithinWaveCount ==
    game.scene = "game" /\ game.waveInProgress /\ ~game.isBossWave
        => game.spawnedBefore + game.spawnedCount
               <= getSpawnCount(globalWaveOf(currentSave))

\* C27: a regular wave does not get stuck: while the frames keep coming,
\* the enemies keep leaving the field and the player stays alive, a
\* regular wave in progress is eventually completed, waveInProgress
\* false and currentWave moved to the next wave or to the marker 13, also
\* when the last enemy leaves without being killed.
RegularWaveCompletes ==
    \A sector \in 0..MaxCampaign : \A wave \in 1..WAVES_PER_SECTOR :
        (/\ game.scene = "game" /\ game.waveInProgress /\ ~game.isBossWave
         /\ currentSave.currentSector = sector /\ currentSave.currentWave = wave)
        ~> (/\ ~game.waveInProgress
            /\ currentSave.currentSector = sector /\ currentSave.currentWave = wave + 1)

\* the update of a frame completes a wave whose enemies all left unharmed
RegularWaveCompletesWitness ==
    /\ last.op = "waveUpdate"
    /\ ~game.waveInProgress /\ game.timers = 1
    /\ currentSave.currentWave = 2
    /\ StatsOf(currentSave, DEFAULT_SAVE).totalKills = Num(0)

\* C28: gating is closed under purchase: along purchases, currency gains
\* and sector progression from the default save, an upgrade owned (level
\* above 0) has its prerequisite owned, and its sectorRequired, if any, is
\* not above highestSector.
GatingClosed ==
    \A id \in UpgradeIds :
        getUpgradeLevel(currentSave, DEFAULT_SAVE, id) > 0
            => /\ UPGRADES[id].prerequisite # ""
                    => getUpgradeLevel(currentSave, DEFAULT_SAVE, UPGRADES[id].prerequisite) > 0
               /\ UPGRADES[id].sectorRequired # NoSector
                    => currentSave.highestSector >= UPGRADES[id].sectorRequired

\* autopilotV2 (prerequisite autopilot, sector 3) has just been bought
GatingClosedWitness ==
    /\ last.op \in {"purchase", "purchaseUpgrade"} /\ last.id = "autopilotV2"
    /\ last.ret = "true"
    /\ getUpgradeLevel(currentSave, DEFAULT_SAVE, "autopilotV2") = 1

\* C29: GameScene.purchaseUpgrade applies the consequences of a purchase
\* only when UpgradeManager.purchase succeeded: a call whose purchase was
\* refused or not attempted leaves the player's autopilot flag, hull and
\* drones as they were, and the autopilot is never enabled while the
\* upgrade 'autopilot' has level 0.
ConsequencesOnlyOnPurchase ==
    [][/\ last'.op = "purchaseUpgrade" /\ last'.ret # "true"
            => /\ game'.autopilotEnabled = game.autopilotEnabled
               /\ game'.maxHP = game.maxHP
               /\ game'.drones = game.drones
       /\ game'.scene = "game" /\ game'.autopilotEnabled
            => hasUpgrade(currentSave', DEFAULT_SAVE', "autopilot")]_vars

\* C30: offline income is credited at most once per absence: a start of
\* the game ("New game" or "Continue", also after a return to the menu)
\* made less than 60 s after a calculateOfflineProgress that credited a
\* positive amount and persisted it gets 0 from calculateOfflineProgress,
\* and "Continue" then finds the scrap of the stored save and writes
\* nothing.
OfflineCreditedOnce ==
    [][(/\ last'.op \in {"newGame", "continue"} /\ game'.scene = "game"
        /\ game.credit.has /\ now - game.credit.at < 60)
            => /\ game'.offlineScrap = 0
               /\ game'.credit = game.credit
               /\ last'.op = "continue"
                    => /\ storage' = storage
                       /\ currentSave'.scrap = SaveManager_load(storage).scrap]_vars

\* "Continue" half a minute after a start that credited two minutes' income
OfflineCreditedOnceWitness ==
    /\ last.op = "continue" /\ game.scene = "game"
    /\ game.credit.has /\ now - game.credit.at = 30
    /\ game.offlineScrap = 0
    /\ currentSave.scrapPerSecond = 2
    /\ currentSave.scrap = 120

====
